---- MODULE Spec2Model ----
(***************************************************************************)
(* Model of backend/src/lib.rs: a canister with four update methods        *)
(*   get_btc_address, get_utxos_and_balance, get_utxo_count_only,          *)
(*   debug_network_status                                                  *)
(* over two management-canister collaborators (ecdsa_public_key and the    *)
(* bitcoin API).  A method runs atomically from its entry to its first     *)
(* .await and from one reply to the next .await or to its end; a panic     *)
(* (.expect on an Err, an arithmetic overflow in a build that checks it)   *)
(* traps the call.                                                         *)
(*                                                                         *)
(* Integers are scaled: u64 is modelled with U64Bits bits and u32 with     *)
(* U32Bits bits, so that sums and lengths beyond the type's range occur.   *)
(* Strings are sequences of characters.  Option<T> is <<>> (None) or <<x>> *)
(* (Some(x)).                                                              *)
(***************************************************************************)
EXTENDS Naturals, Sequences, FiniteSets

\* ------------------------------------------------------------------ bounds
NumReq == 2         \* call contexts that may be in flight together (SpecConc)
MaxAddrLen == 2     \* longest target_address string supplied
MaxUtxos == 5       \* longest UTXO vector the bitcoin API returns
U64Bits == 3        \* modelled width of u64 (balance_sats, Utxo.value)
U32Bits == 2        \* modelled width of u32 (utxo_count)

U64Modulus == 2 ^ U64Bits
U32Modulus == 2 ^ U32Bits

None == <<>>
Some(x) == <<x>>
Ok(x) == [ok |-> TRUE, val |-> x]
Err(e) == [ok |-> FALSE, err |-> e]

\* ------------------------------------------------------------ input domains
Principals == {"p1", "p2"}
Whitespace == {" ", "\n"}
Chars == Whitespace \cup {"a"}

RECURSIVE SeqsUpTo(_, _)
SeqsUpTo(S, n) ==
    IF n = 0 THEN {<<>>}
    ELSE LET shorter == SeqsUpTo(S, n - 1)
         IN  shorter \cup {Append(s, x) : s \in {t \in shorter : Len(t) = n - 1}, x \in S}

Strings == SeqsUpTo(Chars, MaxAddrLen)
Targets == {None} \cup {Some(s) : s \in Strings}

\* Utxo: only the value field is read by the canister.
UtxoValues == {1, 2 ^ (U64Bits - 1), U64Modulus - 1}
Utxo == {[value |-> v] : v \in UtxoValues}
UtxoVecs == SeqsUpTo(Utxo, MaxUtxos)

\* Public key bytes returned by ecdsa_public_key: a compressed or an
\* uncompressed SEC1 encoding of some principal's key, or bytes that are no key.
PublicKeyBytes ==
    {[form |-> f, id |-> p] : f \in {"compressed", "uncompressed"}, p \in Principals}
        \cup {[form |-> "malformed", id |-> "none"]}

\* A failed inter-canister call: (RejectionCode, String).
CallErrors == {<<"CanisterReject", "no route">>, <<"SysTransient", "timeout">>}

EcdsaReplies == {Err(e) : e \in CallErrors} \cup {Ok(k) : k \in PublicKeyBytes}
UtxosReplies == {Err(e) : e \in CallErrors} \cup {Ok(v) : v \in UtxoVecs}
FeeReplies == {Err(e) : e \in CallErrors} \cup {Ok(f) : f \in {<<>>, <<1, 2>>}}

\* The narrow inputs of the concurrent specification.
ConcTargets == {None, Some(<<" ", "a">>), Some(<<"a", "\n">>)}
ConcEcdsaReplies ==
    {Err(<<"CanisterReject", "no route">>), Ok([form |-> "compressed", id |-> "p1"])}
ConcUtxosReplies ==
    {Err(<<"CanisterReject", "no route">>),
     Ok(<<[value |-> 1], [value |-> U64Modulus - 1]>>),
     Ok([i \in 1..(U32Modulus + 1) |-> [value |-> 1]])}
ConcFeeReplies == {Err(<<"SysTransient", "timeout">>), Ok(<<1, 2>>)}

\* ------------------------------------------------------------ configuration
get_key_id == [curve |-> "Secp256k1", name |-> "test_key_1"]
get_network == "Testnet"
get_icp_network == "Testnet"

\* ------------------------------------------------------------ pure helpers
\* str::trim: strip leading and trailing whitespace, keep the inside.
RECURSIVE trim_start(_)
trim_start(s) ==
    IF s = <<>> \/ Head(s) \notin Whitespace THEN s ELSE trim_start(Tail(s))

RECURSIVE trim_end(_)
trim_end(s) ==
    IF s = <<>> \/ s[Len(s)] \notin Whitespace THEN s
    ELSE trim_end(SubSeq(s, 1, Len(s) - 1))

\* str::trim_start in place of str::trim.
trim_leading_only(s) == trim_start(s)

trim(s) == trim_end(trim_start(s))

\* PublicKey::from_slice: Err on bytes that are no SEC1 key.
PublicKey_from_slice(bytes) ==
    IF bytes.form = "malformed" THEN Err("InvalidKey")
    ELSE Ok([compressed |-> bytes.form = "compressed", id |-> bytes.id])

\* Address::p2wpkh(..).to_string(): Err on an uncompressed key; otherwise the
\* bech32 string of the network's prefix and the key's witness program.
Address_p2wpkh(pk, network) ==
    IF ~pk.compressed THEN Err("UncompressedPubkey")
    ELSE Ok((IF network = "Testnet" THEN <<"t", "b">> ELSE <<"b", "c">>)
                \o <<"1", "q", pk.id>>)

\* The argument of the ecdsa_public_key call for principal p.
EcdsaPublicKeyArgument(p) ==
    [canister_id |-> None, derivation_path |-> <<p>>, key_id |-> get_key_id]

GetUtxosRequest(address) ==
    [network |-> get_icp_network, address |-> address, filter |-> None]

GetCurrentFeePercentilesRequest == [network |-> get_icp_network]

\* derive_address_for_principal after its .await: the address, or the panic.
derive_address_for_principal(pk_response) ==
    IF ~pk_response.ok THEN Err("Failed to fetch public key")
    ELSE LET public_key == PublicKey_from_slice(pk_response.val)
         IN  IF ~public_key.ok THEN Err("Invalid public key")
             ELSE LET a == Address_p2wpkh(public_key.val, get_network)
                  IN  IF ~a.ok THEN Err("Failed to create address") ELSE Ok(a.val)

\* The loop `for utxo in &response.utxos { total_sats += utxo.value }` on u64:
\* the wrapped total and whether an addition overflowed.
RECURSIVE total_sats_loop(_, _)
total_sats_loop(utxos, acc) ==
    IF utxos = <<>> THEN acc
    ELSE LET s == acc.total + Head(utxos).value
         IN  total_sats_loop(Tail(utxos),
                 [total |-> s % U64Modulus, overflow |-> acc.overflow \/ s >= U64Modulus])

total_sats(utxos) == total_sats_loop(utxos, [total |-> 0, overflow |-> FALSE])

\* `len() as u32`: a truncating cast.
len_as_u32(utxos) == Len(utxos) % U32Modulus

\* `{:?}` of a call error: the tuple's Debug form.
Debug(e) == <<"(", e[1], ", ", "\"", e[2], "\"", ")">>

\* A match whose Err arm reports ONLINE as well.
status_string_always_online(fees_result) == <<"ICP Connection: ONLINE.">>

\* The match of debug_network_status on the fee call's result.
status_string(fees_result) ==
    IF fees_result.ok THEN <<"ICP Connection: ONLINE.">>
    ELSE <<"ICP Connection: OFFLINE. Error: ">> \o Debug(fees_result.err)

\* unwrap_or_default in place of expect: a failed fetch reads as no UTXOs.
expect_utxos_or_default(resp) ==
    IF resp.ok THEN Ok(resp.val) ELSE Ok(<<>>)

\* `.await.expect("Failed to fetch UTXOs.")`: the response, or the panic.
expect_utxos(resp) ==
    IF resp.ok THEN Ok(resp.val) ELSE Err("Failed to fetch UTXOs.")

\* A match that ignores the supplied address and always derives.
determine_address_always_derive(target_address) == None

\* `match target_address`: Some(addr) gives the trimmed string at once, None
\* leaves the address to derive_address_for_principal(caller()).
determine_address(target_address) ==
    IF target_address # None THEN Some(trim(target_address[1])) ELSE None

\* ------------------------------------------------------------------- state
VARIABLES
    reqs,              \* call context (the async fn's locals) of each slot
    calls,             \* inter-canister calls awaiting their reply
    overflow_checks    \* whether the build panics on arithmetic overflow

vars == <<reqs, calls, overflow_checks>>

\* caller is the principal that caller() gives the methods that read it.
Idle ==
    [pc |-> "idle", op |-> "none", caller |-> "none", target |-> None,
     address_to_check |-> None, issued |-> <<>>, replies |-> <<>>, result |-> None]

Range(s) == {s[i] : i \in 1..Len(s)}

EcdsaCall(r, p) ==
    [req |-> r, method |-> "ecdsa_public_key", arg |-> EcdsaPublicKeyArgument(p)]
UtxosCall(r, address) ==
    [req |-> r, method |-> "bitcoin_get_utxos", arg |-> GetUtxosRequest(address)]
FeesCall(r) ==
    [req |-> r, method |-> "bitcoin_get_current_fee_percentiles",
     arg |-> GetCurrentFeePercentilesRequest]

\* One context shared by every call (a global in place of the fn's locals).
ctx_shared(r) == reqs[1]

\* The call context of slot r.
ctx(r) == reqs[r]

Awaiting(r, method) == {k \in calls : k.req = r /\ k.method = method}

\* Both calls issued together when the address is still to be derived.
first_calls_joined(r, c, address) ==
    IF address = None THEN <<EcdsaCall(r, c), UtxosCall(r, <<>>)>>
    ELSE <<UtxosCall(r, address[1])>>

\* The calls a method issues before its first suspension, address being the
\* outcome of determine_address.
first_calls(r, c, address) ==
    IF address = None THEN <<EcdsaCall(r, c)>> ELSE <<UtxosCall(r, address[1])>>

\* The slots of call contexts; Spec runs one call at a time, in the first.
Slots == 1..NumReq
OneSlot == {1}

Init ==
    /\ reqs = [r \in Slots |-> Idle]
    /\ calls = {}
    /\ overflow_checks \in BOOLEAN

\* ----------------------------------------------------------------- actions
\* A method with an Option<String> argument, up to its first .await.
Start(r, op, c, t) ==
    /\ LET a == determine_address(t)
           cs == first_calls(r, c, a)
       IN  /\ reqs' = [reqs EXCEPT ![r] =
                  [pc |-> IF a = None THEN "await_ecdsa" ELSE "await_utxos",
                   op |-> op, caller |-> c, target |-> t, address_to_check |-> a,
                   issued |-> cs, replies |-> <<>>, result |-> None]]
           /\ calls' = calls \cup Range(cs)
    /\ UNCHANGED overflow_checks

\* The reply of ecdsa_public_key reaches a method that goes on to fetch UTXOs.
Derived(r, op, resp) ==
    /\ ctx(r).pc = "await_ecdsa"
    /\ Awaiting(r, "ecdsa_public_key") # {}
    /\ LET d == derive_address_for_principal(resp)
           k == UtxosCall(r, d.val)
       IN  IF d.ok
           THEN /\ reqs' = [reqs EXCEPT ![r] =
                       [ctx(r) EXCEPT !.pc = "await_utxos",
                                      !.address_to_check = Some(d.val),
                                      !.issued = Append(@, k),
                                      !.replies = Append(@, resp)]]
                /\ calls' = (calls \ Awaiting(r, "ecdsa_public_key")) \cup {k}
           ELSE /\ reqs' = [reqs EXCEPT ![r] =
                       [ctx(r) EXCEPT !.pc = "trapped", !.result = Some(d.err),
                                      !.replies = Append(@, resp)]]
                /\ calls' = calls \ Awaiting(r, "ecdsa_public_key")
    /\ UNCHANGED overflow_checks

\* The end of a call: the value it replies with, or the panic it traps on.
Finish(r, method, resp, outcome) ==
    /\ reqs' = [reqs EXCEPT ![r] =
           [ctx(r) EXCEPT !.pc = IF outcome.ok THEN "replied" ELSE "trapped",
                          !.result = Some(IF outcome.ok THEN outcome.val ELSE outcome.err),
                          !.replies = Append(@, resp)]]
    /\ calls' = calls \ Awaiting(r, method)
    /\ UNCHANGED overflow_checks

get_btc_address(r, c) ==
    /\ reqs[r].pc = "idle"
    /\ reqs' = [reqs EXCEPT ![r] =
           [Idle EXCEPT !.pc = "await_ecdsa", !.op = "get_btc_address", !.caller = c,
                        !.issued = <<EcdsaCall(r, c)>>]]
    /\ calls' = calls \cup {EcdsaCall(r, c)}
    /\ UNCHANGED overflow_checks

get_btc_address_derived(r, resp) ==
    /\ ctx(r).pc = "await_ecdsa"
    /\ ctx(r).op = "get_btc_address"
    /\ Awaiting(r, "ecdsa_public_key") # {}
    /\ Finish(r, "ecdsa_public_key", resp, derive_address_for_principal(resp))

get_utxos_and_balance(r, c, t) ==
    /\ reqs[r].pc = "idle"
    /\ Start(r, "get_utxos_and_balance", c, t)

get_utxos_and_balance_derived(r, resp) ==
    /\ ctx(r).op = "get_utxos_and_balance"
    /\ Derived(r, "get_utxos_and_balance", resp)

\* Steps 3 and 4 of get_utxos_and_balance on the fetched response.
AddressInfo(address, utxos) ==
    LET t == total_sats(utxos)
    IN  IF t.overflow /\ overflow_checks THEN Err("attempt to add with overflow")
        ELSE Ok([address |-> address, balance_sats |-> t.total,
                 utxo_count |-> len_as_u32(utxos), utxos |-> utxos])

get_utxos_and_balance_fetched(r, resp) ==
    /\ ctx(r).pc = "await_utxos"
    /\ ctx(r).op = "get_utxos_and_balance"
    /\ Awaiting(r, "bitcoin_get_utxos") # {}
    /\ LET response == expect_utxos(resp)
       IN  Finish(r, "bitcoin_get_utxos", resp,
               IF response.ok THEN AddressInfo(ctx(r).address_to_check[1], response.val)
               ELSE response)

get_utxo_count_only(r, c, t) ==
    /\ reqs[r].pc = "idle"
    /\ Start(r, "get_utxo_count_only", c, t)

get_utxo_count_only_derived(r, resp) ==
    /\ ctx(r).op = "get_utxo_count_only"
    /\ Derived(r, "get_utxo_count_only", resp)

\* u32::try_from(len).unwrap_or(u32::MAX) in place of the truncating cast.
count_only_saturating(resp) ==
    IF ~resp.ok THEN Err("Failed to fetch UTXOs.")
    ELSE Ok(IF Len(resp.val) >= U32Modulus THEN U32Modulus - 1 ELSE Len(resp.val))

\* The tail of get_utxo_count_only on the fetched response.
count_only(resp) ==
    LET response == expect_utxos(resp)
    IN  IF response.ok THEN Ok(len_as_u32(response.val)) ELSE response

get_utxo_count_only_fetched(r, resp) ==
    /\ ctx(r).pc = "await_utxos"
    /\ ctx(r).op = "get_utxo_count_only"
    /\ Awaiting(r, "bitcoin_get_utxos") # {}
    /\ Finish(r, "bitcoin_get_utxos", resp, count_only(resp))

debug_network_status(r) ==
    /\ reqs[r].pc = "idle"
    /\ reqs' = [reqs EXCEPT ![r] =
           [Idle EXCEPT !.pc = "await_fees", !.op = "debug_network_status",
                        !.issued = <<FeesCall(r)>>]]
    /\ calls' = calls \cup {FeesCall(r)}
    /\ UNCHANGED overflow_checks

debug_network_status_fetched(r, resp) ==
    /\ ctx(r).pc = "await_fees"
    /\ Awaiting(r, "bitcoin_get_current_fee_percentiles") # {}
    /\ Finish(r, "bitcoin_get_current_fee_percentiles", resp, Ok(status_string(resp)))

\* The reply or the reject is delivered to the caller; the context is dropped.
Respond(r) ==
    /\ reqs[r].pc \in {"replied", "trapped"}
    /\ reqs' = [reqs EXCEPT ![r] = Idle]
    /\ UNCHANGED <<calls, overflow_checks>>

Next ==
    \E r \in OneSlot :
        \/ \E c \in Principals : get_btc_address(r, c)
        \/ \E resp \in EcdsaReplies : get_btc_address_derived(r, resp)
        \/ \E c \in Principals, t \in Targets : get_utxos_and_balance(r, c, t)
        \/ \E resp \in EcdsaReplies : get_utxos_and_balance_derived(r, resp)
        \/ \E resp \in UtxosReplies : get_utxos_and_balance_fetched(r, resp)
        \/ \E c \in Principals, t \in Targets : get_utxo_count_only(r, c, t)
        \/ \E resp \in EcdsaReplies : get_utxo_count_only_derived(r, resp)
        \/ \E resp \in UtxosReplies : get_utxo_count_only_fetched(r, resp)
        \/ debug_network_status(r)
        \/ \E resp \in FeeReplies : debug_network_status_fetched(r, resp)
        \/ Respond(r)

NextConc ==
    \E r \in Slots :
        \/ \E c \in Principals : get_btc_address(r, c)
        \/ \E resp \in ConcEcdsaReplies : get_btc_address_derived(r, resp)
        \/ \E c \in Principals, t \in ConcTargets : get_utxos_and_balance(r, c, t)
        \/ \E resp \in ConcEcdsaReplies : get_utxos_and_balance_derived(r, resp)
        \/ \E resp \in ConcUtxosReplies : get_utxos_and_balance_fetched(r, resp)
        \/ \E c \in Principals, t \in ConcTargets : get_utxo_count_only(r, c, t)
        \/ \E resp \in ConcEcdsaReplies : get_utxo_count_only_derived(r, resp)
        \/ \E resp \in ConcUtxosReplies : get_utxo_count_only_fetched(r, resp)
        \/ debug_network_status(r)
        \/ \E resp \in ConcFeeReplies : debug_network_status_fetched(r, resp)
        \/ Respond(r)

Spec == Init /\ [][Next]_vars

SpecConc == Init /\ [][NextConc]_vars

TypeOK ==
    /\ overflow_checks \in BOOLEAN
    /\ \A r \in Slots :
        reqs[r].pc \in {"idle", "await_ecdsa", "await_utxos", "await_fees", "replied", "trapped"}

\* ------------------------------------------------------------ claim helpers
Done(r) == reqs[r].pc \in {"replied", "trapped"}

Methods(q) == [i \in 1..Len(q.issued) |-> q.issued[i].method]

\* The reply of bitcoin_get_utxos that a finished call received, if it got one.
FetchedBy(q) == q.replies[Len(q.replies)]
Fetched(q) ==
    /\ q.op \in {"get_utxos_and_balance", "get_utxo_count_only"}
    /\ q.pc \in {"replied", "trapped"}
    /\ Len(q.replies) = Len(q.issued)
    /\ q.issued[Len(q.issued)].method = "bitcoin_get_utxos"
    /\ FetchedBy(q).ok

\* v1 + ... + vn over the naturals.
RECURSIVE SumOfValues(_)
SumOfValues(utxos) ==
    IF utxos = <<>> THEN 0 ELSE Head(utxos).value + SumOfValues(Tail(utxos))

\* t is s without its leading and trailing whitespace.
IsTrimmed(s, t) ==
    /\ t = <<>> \/ (t[1] \notin Whitespace /\ t[Len(t)] \notin Whitespace)
    /\ \E i \in 0..Len(s) : \E j \in i..Len(s) :
          /\ t = SubSeq(s, i + 1, j)
          /\ \A k \in 1..i : s[k] \in Whitespace
          /\ \A k \in (j + 1)..Len(s) : s[k] \in Whitespace

\* ------------------------------------------------------------------ claims

\* C1: a successful get_utxos_and_balance returns the fetched UTXO sequence
\* unchanged, balance_sats = v1 + ... + vn and utxo_count = n.
C1_AggregationExact ==
    \A r \in Slots :
        LET q == reqs[r]
        IN  (Fetched(q) /\ q.op = "get_utxos_and_balance" /\ q.pc = "replied") =>
                /\ q.result[1].utxos = FetchedBy(q).val
                /\ q.result[1].balance_sats = SumOfValues(FetchedBy(q).val)
                /\ q.result[1].utxo_count = Len(FetchedBy(q).val)

\* The part of C1 inside the integer ranges: when the sum fits u64 and the
\* length fits u32, the returned AddressInfo is exact.
C1_ExactInRange ==
    \A r \in Slots :
        LET q == reqs[r]
        IN  (/\ Fetched(q) /\ q.op = "get_utxos_and_balance"
             /\ SumOfValues(FetchedBy(q).val) < U64Modulus
             /\ Len(FetchedBy(q).val) < U32Modulus) =>
                /\ q.pc = "replied"
                /\ q.result[1].utxos = FetchedBy(q).val
                /\ q.result[1].balance_sats = SumOfValues(FetchedBy(q).val)
                /\ q.result[1].utxo_count = Len(FetchedBy(q).val)

\* C3: when the values sum beyond the u64 range, get_utxos_and_balance fails;
\* it never returns an AddressInfo for such a sequence.
C3_OverflowFails ==
    \A r \in Slots :
        LET q == reqs[r]
        IN  (/\ Fetched(q) /\ q.op = "get_utxos_and_balance"
             /\ SumOfValues(FetchedBy(q).val) >= U64Modulus) =>
                q.pc = "trapped"

\* C4: when more UTXOs are returned than fit u32, get_utxos_and_balance and
\* get_utxo_count_only fail; they never return a truncated count.
C4_CountOverflowFails ==
    \A r \in Slots :
        LET q == reqs[r]
        IN  (Fetched(q) /\ Len(FetchedBy(q).val) >= U32Modulus) => q.pc = "trapped"

PanicMessages ==
    {"Failed to fetch public key", "Invalid public key", "Failed to create address",
     "Failed to fetch UTXOs.", "attempt to add with overflow"}

Outstanding(r) == {k \in calls : k.req = r}

UtxoOps == {"get_utxos_and_balance", "get_utxo_count_only"}

\* C2: with a non-empty target_address, get_utxos_and_balance and
\* get_utxo_count_only never call ecdsa_public_key, query the UTXOs of the
\* supplied string without its surrounding whitespace, and get_utxos_and_balance
\* returns that trimmed string as the address.
C2_TargetUsedWithoutDerivation ==
    \A r \in Slots :
        LET q == reqs[r]
        IN  (q.op \in UtxoOps /\ q.target # None /\ q.target[1] # <<>>) =>
                /\ \A i \in 1..Len(q.issued) :
                      /\ q.issued[i].method = "bitcoin_get_utxos"
                      /\ IsTrimmed(q.target[1], q.issued[i].arg.address)
                /\ \A k \in Outstanding(r) : k.method # "ecdsa_public_key"
                /\ (q.op = "get_utxos_and_balance" /\ q.pc = "replied") =>
                      IsTrimmed(q.target[1], q.result[1].address)

C2_Witness ==
    \E r \in Slots :
        /\ reqs[r].op = "get_utxos_and_balance"
        /\ reqs[r].pc = "replied"
        /\ reqs[r].target = Some(<<" ", "a">>)
        /\ reqs[r].result[1].address = <<"a">>
        /\ reqs[r].issued[1].arg.address = <<"a">>

\* C5: debug_network_status never traps; it returns the ONLINE string exactly
\* when the fee call succeeded, whatever the fees, and otherwise the OFFLINE
\* string followed by the error's code and message.
C5_StatusFollowsFeeCall ==
    \A r \in Slots :
        LET q == reqs[r]
        IN  (q.op = "debug_network_status" /\ q.pc # "await_fees") =>
                /\ q.pc = "replied"
                /\ LET fees_result == q.replies[1]
                       status == q.result[1]
                   IN  /\ fees_result.ok <=> status = <<"ICP Connection: ONLINE.">>
                       /\ ~fees_result.ok =>
                             /\ status[1] = "ICP Connection: OFFLINE. Error: "
                             /\ \E i, j \in 2..Len(status) :
                                   /\ i < j
                                   /\ status[i] = fees_result.err[1]
                                   /\ status[j] = fees_result.err[2]

C5_Witness ==
    \E r \in Slots :
        /\ reqs[r].op = "debug_network_status"
        /\ reqs[r].pc = "replied"
        /\ ~reqs[r].replies[1].ok
        /\ reqs[r].result[1][1] = "ICP Connection: OFFLINE. Error: "

\* C7: in get_btc_address, get_utxos_and_balance and get_utxo_count_only each
\* collaborator is called at most once per call, and a failed collaborator
\* reply is the last thing the call sees: it traps with the panic message, has
\* issued no call after the failed one and leaves none outstanding.
C7_FailurePropagates ==
    \A r \in Slots :
        LET q == reqs[r]
        IN  (q.op \in UtxoOps \cup {"get_btc_address"}) =>
                /\ \A i, j \in 1..Len(q.issued) :
                      q.issued[i].method = q.issued[j].method => i = j
                /\ \A i \in 1..Len(q.replies) :
                      ~q.replies[i].ok =>
                          /\ q.pc = "trapped"
                          /\ q.result[1] \in PanicMessages
                          /\ i = Len(q.replies)
                          /\ Len(q.issued) = i
                          /\ Outstanding(r) = {}

C7_Witness ==
    \E r \in Slots :
        /\ reqs[r].op = "get_utxos_and_balance"
        /\ reqs[r].pc = "trapped"
        /\ Len(reqs[r].replies) = 2
        /\ reqs[r].replies[1].ok
        /\ ~reqs[r].replies[2].ok

\* C9: a call to get_utxos_and_balance or get_utxo_count_only has at most one
\* collaborator call outstanding, suspends at most twice (ecdsa_public_key,
\* then bitcoin_get_utxos), and without a target address issues
\* bitcoin_get_utxos only after ecdsa_public_key has replied with a key that
\* gave the address queried.
C9_ResolutionPrecedesQuery ==
    \A r \in Slots :
        LET q == reqs[r]
        IN  (q.op \in UtxoOps) =>
                /\ Cardinality(Outstanding(r)) <= 1
                /\ Methods(q) \in
                      {<<"ecdsa_public_key">>, <<"bitcoin_get_utxos">>,
                       <<"ecdsa_public_key", "bitcoin_get_utxos">>}
                /\ q.target = None => q.issued[1].method = "ecdsa_public_key"
                /\ \A i \in 1..Len(q.issued) :
                      (q.issued[i].method = "bitcoin_get_utxos" /\ q.target = None) =>
                          /\ Len(q.replies) >= 1
                          /\ q.replies[1].ok
                          /\ q.replies[1].val.form = "compressed"
                          /\ q.issued[i].arg.address = q.address_to_check[1]
                          /\ q.address_to_check[1] # <<>>

C9_Witness ==
    \E r \in Slots :
        /\ reqs[r].op = "get_utxo_count_only"
        /\ reqs[r].target = None
        /\ reqs[r].pc = "await_utxos"
        /\ Outstanding(r) = {reqs[r].issued[2]}
        /\ reqs[r].replies[1].ok

\* Two finished calls that had the same caller, the same target_address and
\* the same collaborator replies.
SameInputs(q1, q2) ==
    /\ q1.pc \in {"replied", "trapped"}
    /\ q2.pc \in {"replied", "trapped"}
    /\ q1.caller = q2.caller
    /\ q1.target = q2.target
    /\ q1.replies = q2.replies

\* C6 as stated: on the same inputs get_utxo_count_only returns the utxo_count
\* of get_utxos_and_balance and the two fail on exactly the same inputs.
C6_CountEquivalent ==
    \A r1, r2 \in Slots :
        LET q1 == reqs[r1]
            q2 == reqs[r2]
        IN  (/\ q1.op = "get_utxos_and_balance" /\ q2.op = "get_utxo_count_only"
             /\ SameInputs(q1, q2)) =>
                /\ q1.pc = q2.pc
                /\ q1.pc = "replied" => q2.result[1] = q1.result[1].utxo_count

\* C6 as amended: on the same inputs, when get_utxos_and_balance succeeds
\* get_utxo_count_only succeeds with exactly its utxo_count; when
\* get_utxo_count_only fails get_utxos_and_balance fails; and
\* get_utxos_and_balance fails where get_utxo_count_only succeeds only on an
\* overflow of the sum of the values.
C6_CountMatchesBalance ==
    \A r1, r2 \in Slots :
        LET q1 == reqs[r1]
            q2 == reqs[r2]
        IN  (/\ q1.op = "get_utxos_and_balance" /\ q2.op = "get_utxo_count_only"
             /\ SameInputs(q1, q2)) =>
                /\ q1.pc = "replied" =>
                      (q2.pc = "replied" /\ q2.result[1] = q1.result[1].utxo_count)
                /\ q2.pc = "trapped" => (q1.pc = "trapped" /\ q1.result = q2.result)
                /\ (q1.pc = "trapped" /\ q2.pc = "replied") =>
                      /\ q1.result = Some("attempt to add with overflow")
                      /\ SumOfValues(FetchedBy(q1).val) >= U64Modulus

C6_Witness ==
    \E r1, r2 \in Slots :
        /\ reqs[r1].op = "get_utxos_and_balance"
        /\ reqs[r2].op = "get_utxo_count_only"
        /\ SameInputs(reqs[r1], reqs[r2])
        /\ reqs[r1].pc = "replied"
        /\ Len(FetchedBy(reqs[r1]).val) > U32Modulus
        /\ reqs[r2].result[1] = reqs[r1].result[1].utxo_count

\* s and t are one string inside two paddings of whitespace.
PaddingOnly(s, t) ==
    \E i \in 0..Len(s) : \E j \in i..Len(s) :
    \E k \in 0..Len(t) : \E l \in k..Len(t) :
        /\ SubSeq(s, i + 1, j) = SubSeq(t, k + 1, l)
        /\ \A n \in (1..i) \cup ((j + 1)..Len(s)) : s[n] \in Whitespace
        /\ \A n \in (1..k) \cup ((l + 1)..Len(t)) : t[n] \in Whitespace

\* C8: two calls of the same method whose target_address strings differ only
\* in surrounding whitespace send the same bitcoin_get_utxos request, carrying
\* the string without that whitespace, and on the same reply end the same way
\* with the same result.
C8_PaddingIgnored ==
    \A r1, r2 \in Slots :
        LET q1 == reqs[r1]
            q2 == reqs[r2]
        IN  (/\ q1.op \in UtxoOps /\ q1.op = q2.op
             /\ q1.target # None /\ q2.target # None
             /\ PaddingOnly(q1.target[1], q2.target[1])) =>
                /\ q1.issued[1].arg = q2.issued[1].arg
                /\ IsTrimmed(q1.target[1], q1.issued[1].arg.address)
                /\ (Done(r1) /\ Done(r2) /\ q1.replies = q2.replies) =>
                      (q1.pc = q2.pc /\ q1.result = q2.result)

C8_Witness ==
    \E r1, r2 \in Slots :
        /\ reqs[r1].op = "get_utxos_and_balance"
        /\ reqs[r2].op = "get_utxos_and_balance"
        /\ reqs[r1].target = Some(<<" ", "a">>)
        /\ reqs[r2].target = Some(<<"a", "\n">>)
        /\ reqs[r1].pc = "replied"
        /\ reqs[r2].pc = "replied"
        /\ reqs[r1].result = reqs[r2].result
        /\ reqs[r1].result[1].address = <<"a">>
        /\ reqs[r1].result[1].utxo_count > 0

\* What a call does when it runs alone from its entry to its end on the
\* replies given, in the order it awaits them.
Alone(op, t, replies) ==
    LET fail(msg) == [pc |-> "trapped", result |-> Some(msg)]
        reply(v) == [pc |-> "replied", result |-> Some(v)]
        end(outcome) == IF outcome.ok THEN reply(outcome.val) ELSE fail(outcome.err)
    IN  CASE op = "get_btc_address" -> end(derive_address_for_principal(replies[1]))
          [] op = "debug_network_status" -> reply(status_string(replies[1]))
          [] OTHER ->
             LET address == IF t # None THEN Ok(trim(t[1]))
                            ELSE derive_address_for_principal(replies[1])
             IN  IF ~address.ok THEN fail(address.err)
                 ELSE LET resp == replies[IF t # None THEN 1 ELSE 2]
                      IN  IF ~resp.ok THEN fail("Failed to fetch UTXOs.")
                          ELSE IF op = "get_utxo_count_only"
                               THEN reply(len_as_u32(resp.val))
                               ELSE end(AddressInfo(address.val, resp.val))

\* C10: under every interleaving of the calls in flight, a finished call has
\* the outcome it has when run alone with its own caller, target_address and
\* replies; what the other calls did does not show in it.
C10_NoInterference ==
    \A r \in Slots :
        Done(r) =>
            LET q == reqs[r]
                alone == Alone(q.op, q.target, q.replies)
            IN  /\ q.pc = alone.pc
                /\ q.result = alone.result
                /\ \A i \in 1..Len(q.issued) : q.issued[i].req = r
                /\ q.issued[1].method = "ecdsa_public_key" =>
                      q.issued[1].arg.derivation_path = <<q.caller>>

C10_Witness ==
    \E r1, r2 \in Slots :
        /\ r1 # r2
        /\ reqs[r1].op = "get_utxos_and_balance"
        /\ reqs[r1].pc = "replied"
        /\ reqs[r1].target = None
        /\ reqs[r2].op = "get_utxos_and_balance"
        /\ reqs[r2].pc = "await_utxos"
        /\ reqs[r2].target # None
        /\ reqs[r1].result[1].address # reqs[r2].address_to_check[1]

====
